---------------------------- MODULE Spec2Model ----------------------------
(* Traffic-detector datasets: the four collection classes of                *)
(* flow_processing_input.py and flow_processed_output.py, their export to   *)
(* a pickle file, their import from one through the constructor, and their  *)
(* __eq__ methods.                                                          *)
EXTENDS Integers, Sequences, FiniteSets, TLC

(***************************************************************************)
(* Bounds of the model.                                                    *)
(***************************************************************************)
\* longest list / largest mapping assigned to an instance under Spec
MaxLen == 2
\* longest list / largest mapping compared under SpecEq
MaxEqLen == 2

(***************************************************************************)
(* Python values.  Every value is a record tagged with its Python type.    *)
(***************************************************************************)
\* an attribute that was declared in the class body but never assigned
Unset == [type |-> "unset"]

PyInt(n) == [type |-> "int", n |-> n]

PyStr(s) == [type |-> "str", s |-> s]

PyList(items) == [type |-> "list", items |-> items]

\* a dict keeps its insertion order: a sequence of entries with unique keys
PyDict(items) == [type |-> "dict", items |-> items]

Direction == {"north_bound", "east_bound", "south_bound", "west_bound"}

DetectorId == {1, 2}

SectionId == {1, 2}

Point(x, y) == [x |-> x, y |-> y]

\* one entry of detectors_location_dict: key -> (Direction, Point)
DictEntry(k, d, pt) == [key |-> k, val |-> <<d, pt>>]

DetectorFlowData(id, d, fd, nm, yr) ==
    [type |-> "DetectorFlowData", detector_id |-> id, direction |-> d,
     flow_data |-> fd, name |-> nm, year |-> yr]

DetectorIdToRoadSection(id, sec) ==
    [type |-> "DetectorIdToRoadSection", detector_id |-> id, section_id |-> sec]

OutputFlowData(id, fd, sec) ==
    [type |-> "OutputFlowData", detector_id |-> id, flow_data |-> fd,
     section_id |-> sec]

Classes == {"DetectorsLocation", "GroundFlowData",
            "DetectorIdToRoadSections", "OutputFlowDataSet"}

ListClasses == Classes \ {"DetectorsLocation"}

\* the record class a list-based collection holds
RecordType(c) ==
    CASE c = "GroundFlowData" -> "DetectorFlowData"
      [] c = "DetectorIdToRoadSections" -> "DetectorIdToRoadSection"
      [] c = "OutputFlowDataSet" -> "OutputFlowData"
      [] OTHER -> "none"

\* len() of a list or a dict
PyLen(v) == Len(v.items)


(***************************************************************************)
(* Instances.  An attribute that was never assigned holds Unset; reading   *)
(* it raises AttributeError.  None stands for a name bound to no instance. *)
(***************************************************************************)
None == [cls |-> "None"]

\* the name of the primary field of each collection class
PrimaryField(c) ==
    CASE c = "DetectorsLocation" -> "detectors_location_dict"
      [] c = "GroundFlowData" -> "detector_flow_data"
      [] c = "DetectorIdToRoadSections" -> "aimsun_detector_locations"
      [] c = "OutputFlowDataSet" -> "flow_data_set"

\* the value of the primary field of instance o
Primary(o) ==
    CASE o.cls = "DetectorsLocation" -> o.detectors_location_dict
      [] o.cls = "GroundFlowData" -> o.detector_flow_data
      [] o.cls = "DetectorIdToRoadSections" -> o.aimsun_detector_locations
      [] o.cls = "OutputFlowDataSet" -> o.flow_data_set

\* self.<primary field> = v
SetPrimary(o, v) ==
    CASE o.cls = "DetectorsLocation" -> [o EXCEPT !.detectors_location_dict = v]
      [] o.cls = "GroundFlowData" -> [o EXCEPT !.detector_flow_data = v]
      [] o.cls = "DetectorIdToRoadSections" ->
             [o EXCEPT !.aimsun_detector_locations = v]
      [] o.cls = "OutputFlowDataSet" -> [o EXCEPT !.flow_data_set = v]

(***************************************************************************)
(* Outcomes of a call: a normal return or a raised exception.  A message   *)
(* is the sequence of its sentences; the blank between two sentences is    *)
(* not modelled.                                                           *)
(***************************************************************************)
Returned == [exc |-> "none", msg |-> <<>>]

Raise(e, m) == [exc |-> e, msg |-> m]

NoAttribute(c, field) ==
    Raise("AttributeError", <<c, "object has no attribute", field>>)

\* the exception of export_to_file on an empty collection
EmptyDatasetError(out) ==
    /\ out.exc = "Exception"
    /\ Len(out.msg) = 2
    /\ out.msg[2] = "Export aborted."

\* the exception of _import_from_file on data of the wrong type
TypeMismatchError(out) ==
    out = Raise("Exception", <<"File has incorrect data type.", "Import aborted.">>)

(***************************************************************************)
(* Files and the pickle stream.  A file is a sequence of frames: one frame *)
(* per pickle.dump call, or one frame of plain text.                       *)
(***************************************************************************)
NoFile == [exists |-> FALSE, frames |-> <<>>]

\* open(filepath, 'x'); write(text); close()
TextFile == [exists |-> TRUE, frames |-> <<[kind |-> "text", obj |-> Unset]>>]

\* pickle.dump(v, file): one more serialized value at the end of the stream
PickleDump(file, v) ==
    [file EXCEPT !.frames = Append(@, [kind |-> "pickle", obj |-> v])]

\* variant of OpenWb: the file is opened for appending and keeps its content
OpenAppend(file) == [exists |-> TRUE, frames |-> file.frames]

\* open(filepath, 'wb'): the file exists and is truncated
OpenWb(file) == [exists |-> TRUE, frames |-> <<>>]

\* pickle.load(file) with pos - 1 values already consumed
PickleLoad(file, pos) ==
    IF pos > Len(file.frames)
    THEN [out |-> Raise("EOFError", <<"Ran out of input">>), obj |-> Unset]
    ELSE IF file.frames[pos].kind # "pickle"
    THEN [out |-> Raise("UnpicklingError", <<"pickle data was truncated">>),
          obj |-> Unset]
    ELSE [out |-> Returned, obj |-> file.frames[pos].obj]

\* isinstance(v, list) / isinstance(v, dict) / isinstance(v, int) / a class
IsInstance(v, t) == v.type = t


(***************************************************************************)
(* export_to_file.  Each operator takes the instance and the file now at   *)
(* filepath and gives the outcome, the warnings emitted and the file left  *)
(* at filepath.                                                            *)
(***************************************************************************)
ExportResult(o, w, f) == [out |-> o, warnings |-> w, file |-> f]

\* variant of WarnIfExists: the warning is emitted without the existence check
WarnAlways(file) == 1

\* path.exists(filepath) -> warnings.warn(...)
WarnIfExists(file) == IF file.exists THEN 1 ELSE 0

\* variant of DetectorsLocation_export_to_file: the year is dumped first
DetectorsLocation_export_year_first(self, file) ==
    IF self.detectors_location_dict = Unset
    THEN ExportResult(NoAttribute(self.cls, "detectors_location_dict"), 0, file)
    ELSE IF PyLen(self.detectors_location_dict) = 0
    THEN ExportResult(Raise("Exception", <<"DetectorsLocation has no data.",
                                           "Export aborted.">>), 0, file)
    ELSE ExportResult(Returned, WarnIfExists(file),
             PickleDump(PickleDump(OpenWb(file), self.year),
                        self.detectors_location_dict))

DetectorsLocation_export_to_file(self, file) ==
    IF self.detectors_location_dict = Unset
    THEN ExportResult(NoAttribute(self.cls, "detectors_location_dict"), 0, file)
    ELSE IF PyLen(self.detectors_location_dict) = 0
    THEN ExportResult(Raise("Exception", <<"DetectorsLocation has no data.",
                                           "Export aborted.">>), 0, file)
    ELSE ExportResult(Returned, WarnIfExists(file),
             PickleDump(PickleDump(OpenWb(file), self.detectors_location_dict),
                        self.year))

\* variant of GroundFlowData_export_to_file: no emptiness check
GroundFlowData_export_unchecked(self, file) ==
    IF self.detector_flow_data = Unset
    THEN ExportResult(NoAttribute(self.cls, "detector_flow_data"), 0, file)
    ELSE ExportResult(Returned, WarnIfExists(file),
             PickleDump(OpenWb(file), self.detector_flow_data))

GroundFlowData_export_to_file(self, file) ==
    IF self.detector_flow_data = Unset
    THEN ExportResult(NoAttribute(self.cls, "detector_flow_data"), 0, file)
    ELSE IF PyLen(self.detector_flow_data) = 0
    THEN ExportResult(Raise("Exception", <<"GroundFlowData has no data.",
                                           "Export aborted.">>), 0, file)
    ELSE ExportResult(Returned, WarnIfExists(file),
             PickleDump(OpenWb(file), self.detector_flow_data))

\* variant of DetectorIdToRoadSections_export_to_file: the file is opened for
\* appending, so earlier content stays in front of the new dump
DetectorIdToRoadSections_export_append(self, file) ==
    IF self.aimsun_detector_locations = Unset
    THEN ExportResult(NoAttribute(self.cls, "aimsun_detector_locations"), 0, file)
    ELSE IF PyLen(self.aimsun_detector_locations) = 0
    THEN ExportResult(Raise("Exception", <<"DetectorIdToRoadSections has no data.",
                                           "Export aborted.">>), 0, file)
    ELSE ExportResult(Returned, WarnIfExists(file),
             PickleDump(OpenAppend(file), self.aimsun_detector_locations))

DetectorIdToRoadSections_export_to_file(self, file) ==
    IF self.aimsun_detector_locations = Unset
    THEN ExportResult(NoAttribute(self.cls, "aimsun_detector_locations"), 0, file)
    ELSE IF PyLen(self.aimsun_detector_locations) = 0
    THEN ExportResult(Raise("Exception", <<"DetectorIdToRoadSections has no data.",
                                           "Export aborted.">>), 0, file)
    ELSE ExportResult(Returned, WarnIfExists(file),
             PickleDump(OpenWb(file), self.aimsun_detector_locations))

\* variant of OutputFlowDataSet_export_to_file: the existence check and the
\* open come before the emptiness check
OutputFlowDataSet_export_open_first(self, file) ==
    IF self.flow_data_set = Unset
    THEN ExportResult(NoAttribute(self.cls, "flow_data_set"),
                      WarnIfExists(file), OpenWb(file))
    ELSE IF PyLen(self.flow_data_set) = 0
    THEN ExportResult(Raise("Exception", <<"OutputFlowDataSet has no data.",
                                           "Export aborted.">>),
                      WarnIfExists(file), OpenWb(file))
    ELSE ExportResult(Returned, WarnIfExists(file),
             PickleDump(OpenWb(file), self.flow_data_set))

\* variant of OutputFlowDataSet_export_to_file: the year is dumped after the
\* list, as the docstring announces
OutputFlowDataSet_export_with_year(self, file) ==
    IF self.flow_data_set = Unset
    THEN ExportResult(NoAttribute(self.cls, "flow_data_set"), 0, file)
    ELSE IF PyLen(self.flow_data_set) = 0
    THEN ExportResult(Raise("Exception", <<"OutputFlowDataSet has no data.",
                                           "Export aborted.">>), 0, file)
    ELSE ExportResult(Returned, WarnIfExists(file),
             PickleDump(PickleDump(OpenWb(file), self.flow_data_set), self.year))

OutputFlowDataSet_export_to_file(self, file) ==
    IF self.flow_data_set = Unset
    THEN ExportResult(NoAttribute(self.cls, "flow_data_set"), 0, file)
    ELSE IF PyLen(self.flow_data_set) = 0
    THEN ExportResult(Raise("Exception", <<"OutputFlowDataSet has no data.",
                                           "Export aborted.">>), 0, file)
    ELSE ExportResult(Returned, WarnIfExists(file),
             PickleDump(OpenWb(file), self.flow_data_set))

export_to_file(self, file) ==
    CASE self.cls = "DetectorsLocation" -> DetectorsLocation_export_to_file(self, file)
      [] self.cls = "GroundFlowData" -> GroundFlowData_export_to_file(self, file)
      [] self.cls = "DetectorIdToRoadSections" ->
             DetectorIdToRoadSections_export_to_file(self, file)
      [] self.cls = "OutputFlowDataSet" -> OutputFlowDataSet_export_to_file(self, file)

(***************************************************************************)
(* _import_from_file.  Each operator takes the instance under construction *)
(* and the file at filepath and gives the outcome and the instance as the  *)
(* call leaves it.                                                         *)
(***************************************************************************)
ImportResult(o, s) == [out |-> o, self |-> s]

\* open(filepath, 'rb') on a path that holds no file
FileNotFound == Raise("FileNotFoundError", <<"No such file or directory">>)

IncorrectDataType ==
    Raise("Exception", <<"File has incorrect data type.", "Import aborted.">>)

\* imported_data[0] of an empty list
IndexOutOfRange == Raise("IndexError", <<"list index out of range">>)

\* variant of DetectorsLocation_import_from_file: the year read from the file
\* is checked but not assigned, so the constructor's year stays
DetectorsLocation_import_keep_year(self, file) ==
    IF ~file.exists THEN ImportResult(FileNotFound, self)
    ELSE LET imported_location_dict == PickleLoad(file, 1)
             imported_year == PickleLoad(file, 2)
         IN  IF imported_location_dict.out # Returned
             THEN ImportResult(imported_location_dict.out, self)
             ELSE IF imported_year.out # Returned
             THEN ImportResult(imported_year.out, self)
             ELSE IF /\ IsInstance(imported_location_dict.obj, "dict")
                     /\ IsInstance(imported_year.obj, "int")
             THEN ImportResult(Returned,
                      [self EXCEPT !.detectors_location_dict =
                                       imported_location_dict.obj])
             ELSE ImportResult(IncorrectDataType, self)

\* variant of DetectorsLocation_import_from_file: the mapping is assigned as
\* soon as it is known to be a dict, before the year is checked
DetectorsLocation_import_eager(self, file) ==
    IF ~file.exists THEN ImportResult(FileNotFound, self)
    ELSE LET imported_location_dict == PickleLoad(file, 1)
             imported_year == PickleLoad(file, 2)
             assigned == [self EXCEPT !.detectors_location_dict =
                                          imported_location_dict.obj]
         IN  IF imported_location_dict.out # Returned
             THEN ImportResult(imported_location_dict.out, self)
             ELSE IF imported_year.out # Returned
             THEN ImportResult(imported_year.out, self)
             ELSE IF ~IsInstance(imported_location_dict.obj, "dict")
             THEN ImportResult(IncorrectDataType, self)
             ELSE IF IsInstance(imported_year.obj, "int")
             THEN ImportResult(Returned, [assigned EXCEPT !.year = imported_year.obj])
             ELSE ImportResult(IncorrectDataType, assigned)

DetectorsLocation_import_from_file(self, file) ==
    IF ~file.exists THEN ImportResult(FileNotFound, self)
    ELSE LET imported_location_dict == PickleLoad(file, 1)
             imported_year == PickleLoad(file, 2)
         IN  IF imported_location_dict.out # Returned
             THEN ImportResult(imported_location_dict.out, self)
             ELSE IF imported_year.out # Returned
             THEN ImportResult(imported_year.out, self)
             ELSE IF /\ IsInstance(imported_location_dict.obj, "dict")
                     /\ IsInstance(imported_year.obj, "int")
             THEN ImportResult(Returned,
                      [self EXCEPT !.detectors_location_dict =
                                       imported_location_dict.obj,
                                   !.year = imported_year.obj])
             ELSE ImportResult(IncorrectDataType, self)

\* the shared shape of the three list imports: load one value, check that it
\* is a list whose first element is of the record class, assign it
\* variant of ListImport: every element is checked, not the first alone
ListImport_check_all(self, file, recordClass) ==
    IF ~file.exists THEN ImportResult(FileNotFound, self)
    ELSE LET imported_data == PickleLoad(file, 1)
         IN  IF imported_data.out # Returned
             THEN ImportResult(imported_data.out, self)
             ELSE IF ~IsInstance(imported_data.obj, "list")
             THEN ImportResult(IncorrectDataType, self)
             ELSE IF PyLen(imported_data.obj) = 0
             THEN ImportResult(IndexOutOfRange, self)
             ELSE IF \A i \in 1..PyLen(imported_data.obj) :
                         IsInstance(imported_data.obj.items[i], recordClass)
             THEN ImportResult(Returned, SetPrimary(self, imported_data.obj))
             ELSE ImportResult(IncorrectDataType, self)

ListImport(self, file, recordClass) ==
    IF ~file.exists THEN ImportResult(FileNotFound, self)
    ELSE LET imported_data == PickleLoad(file, 1)
         IN  IF imported_data.out # Returned
             THEN ImportResult(imported_data.out, self)
             ELSE IF ~IsInstance(imported_data.obj, "list")
             THEN ImportResult(IncorrectDataType, self)
             ELSE IF PyLen(imported_data.obj) = 0
             THEN ImportResult(IndexOutOfRange, self)
             ELSE IF IsInstance(imported_data.obj.items[1], recordClass)
             THEN ImportResult(Returned, SetPrimary(self, imported_data.obj))
             ELSE ImportResult(IncorrectDataType, self)

GroundFlowData_import_from_file(self, file) ==
    ListImport(self, file, "DetectorFlowData")

DetectorIdToRoadSections_import_from_file(self, file) ==
    ListImport(self, file, "DetectorIdToRoadSection")

OutputFlowDataSet_import_from_file(self, file) ==
    ListImport(self, file, "OutputFlowData")

import_from_file(self, file) ==
    CASE self.cls = "DetectorsLocation" -> DetectorsLocation_import_from_file(self, file)
      [] self.cls = "GroundFlowData" -> GroundFlowData_import_from_file(self, file)
      [] self.cls = "DetectorIdToRoadSections" ->
             DetectorIdToRoadSections_import_from_file(self, file)
      [] self.cls = "OutputFlowDataSet" -> OutputFlowDataSet_import_from_file(self, file)

(***************************************************************************)
(* File handles.  Both methods open the file in a with statement.          *)
(***************************************************************************)
\* variant of WithOpen: the file is closed by a call placed after the body,
\* which a raising body never reaches
OpenThenClose(bodyRaised) == IF bodyRaised THEN 1 ELSE 0

\* the handles "with open(...) as file: body" leaves open: the file is closed
\* on leaving the block, whether the body returned or raised
WithOpen(bodyRaised) == 0

\* the handles an export_to_file call with outcome out leaves open: the with
\* block is entered only when nothing was raised before it
ExportHandles(out) == IF out = Returned THEN WithOpen(FALSE) ELSE 0

\* the handles an _import_from_file call on file with outcome out leaves
\* open: open() fails on a missing file, the body raises when a pickle.load
\* does, and the type check follows the block
ImportHandles(file, out) ==
    IF ~file.exists THEN 0
    ELSE WithOpen(out.exc \in {"EOFError", "UnpicklingError"})

(***************************************************************************)
(* __init__: the instance a constructor call starts from, before the       *)
(* import.  Only DetectorsLocation assigns an attribute (year).            *)
(***************************************************************************)
NewInstance(c, year) ==
    CASE c = "DetectorsLocation" ->
             [cls |-> c, detectors_location_dict |-> Unset, year |-> PyInt(year)]
      [] c = "GroundFlowData" -> [cls |-> c, detector_flow_data |-> Unset]
      [] c = "DetectorIdToRoadSections" ->
             [cls |-> c, aimsun_detector_locations |-> Unset]
      [] c = "OutputFlowDataSet" ->
             [cls |-> c, flow_data_set |-> Unset, year |-> Unset]


(***************************************************************************)
(* __eq__.  Each operator gives the outcome of self == other and, when it  *)
(* returns, the value returned.                                            *)
(***************************************************************************)
EqResult(o, v) == [out |-> o, val |-> v]

\* the position of key k in a dict's entries, 0 when k is not a key
KeyIndex(items, k) ==
    IF \E j \in 1..Len(items) : items[j].key = k
    THEN CHOOSE j \in 1..Len(items) : items[j].key = k
    ELSE 0

RECURSIVE DetectorsLocation_eq_loop_by_index(_, _, _)
\* variant of DetectorsLocation_eq_loop: the i-th entry of self is compared
\* with the i-th entry of other
DetectorsLocation_eq_loop_by_index(selfItems, otherItems, i) ==
    IF i > Len(selfItems) THEN TRUE
    ELSE IF i > Len(otherItems) THEN FALSE
    ELSE IF ~(/\ selfItems[i].key = otherItems[i].key
              /\ selfItems[i].val[1] = otherItems[i].val[1]
              /\ selfItems[i].val[2].x = otherItems[i].val[2].x
              /\ selfItems[i].val[2].y = otherItems[i].val[2].y)
    THEN FALSE
    ELSE DetectorsLocation_eq_loop_by_index(selfItems, otherItems, i + 1)

RECURSIVE DetectorsLocation_eq_loop(_, _, _)
\* for key in self.detectors_location_dict, from the i-th key on
DetectorsLocation_eq_loop(selfItems, otherItems, i) ==
    IF i > Len(selfItems) THEN TRUE
    ELSE LET key == selfItems[i].key
             j == KeyIndex(otherItems, key)
         IN  IF j # 0
             THEN LET selfVal == selfItems[i].val
                      selfDirection == selfVal[1]
                      selfPoint == selfVal[2]
                      otherVal == otherItems[j].val
                      otherDirection == otherVal[1]
                      otherPoint == otherVal[2]
                  IN  IF ~(/\ selfDirection = otherDirection
                           /\ selfPoint.x = otherPoint.x
                           /\ selfPoint.y = otherPoint.y)
                      THEN FALSE
                      ELSE DetectorsLocation_eq_loop(selfItems, otherItems, i + 1)
             ELSE FALSE

DetectorsLocation_eq(self, other) ==
    IF self.year # other.year THEN EqResult(Returned, FALSE)
    ELSE IF self.detectors_location_dict = Unset
    THEN EqResult(NoAttribute(self.cls, "detectors_location_dict"), FALSE)
    ELSE IF /\ PyLen(self.detectors_location_dict) > 0
            /\ other.detectors_location_dict = Unset
    THEN EqResult(NoAttribute(other.cls, "detectors_location_dict"), FALSE)
    ELSE EqResult(Returned,
             DetectorsLocation_eq_loop(self.detectors_location_dict.items,
                 IF other.detectors_location_dict = Unset THEN <<>>
                 ELSE other.detectors_location_dict.items, 1))

RECURSIVE GroundFlowData_eq_loop_last_only(_, _, _, _)
\* variant of GroundFlowData_eq_loop: the flag is overwritten at every index
GroundFlowData_eq_loop_last_only(selfItems, otherItems, i, equality) ==
    IF i > Len(selfItems) THEN equality
    ELSE LET this_detector == selfItems[i]
             other_detector == otherItems[i]
         IN  GroundFlowData_eq_loop_last_only(selfItems, otherItems, i + 1,
                 ~(\/ this_detector.detector_id # other_detector.detector_id
                   \/ this_detector.direction # other_detector.direction
                   \/ this_detector.flow_data # other_detector.flow_data
                   \/ this_detector.name # other_detector.name
                   \/ this_detector.year # other_detector.year))

RECURSIVE GroundFlowData_eq_loop(_, _, _, _)
\* for i in range(len(self.detector_flow_data)), with the equality flag so far
GroundFlowData_eq_loop(selfItems, otherItems, i, equality) ==
    IF i > Len(selfItems) THEN equality
    ELSE LET this_detector == selfItems[i]
             other_detector == otherItems[i]
         IN  IF \/ this_detector.detector_id # other_detector.detector_id
                \/ this_detector.direction # other_detector.direction
                \/ this_detector.flow_data # other_detector.flow_data
                \/ this_detector.name # other_detector.name
                \/ this_detector.year # other_detector.year
             THEN GroundFlowData_eq_loop(selfItems, otherItems, i + 1, FALSE)
             ELSE GroundFlowData_eq_loop(selfItems, otherItems, i + 1, equality)

GroundFlowData_eq(self, other) ==
    IF self.detector_flow_data = Unset
    THEN EqResult(NoAttribute(self.cls, "detector_flow_data"), FALSE)
    ELSE IF other.detector_flow_data = Unset
    THEN EqResult(NoAttribute(other.cls, "detector_flow_data"), FALSE)
    ELSE IF PyLen(self.detector_flow_data) # PyLen(other.detector_flow_data)
    THEN EqResult(Returned, FALSE)
    ELSE EqResult(Returned,
             GroundFlowData_eq_loop(self.detector_flow_data.items,
                                    other.detector_flow_data.items, 1, TRUE))

\* a loop that answers after its first index
DetectorIdToRoadSections_eq_loop_first_only(selfItems, otherItems, i) ==
    IF i > Len(selfItems) THEN TRUE
    ELSE /\ selfItems[i].detector_id = otherItems[i].detector_id
         /\ selfItems[i].section_id = otherItems[i].section_id

RECURSIVE DetectorIdToRoadSections_eq_loop(_, _, _)
\* for i in range(len(self.aimsun_detector_locations))
DetectorIdToRoadSections_eq_loop(selfItems, otherItems, i) ==
    IF i > Len(selfItems) THEN TRUE
    ELSE LET selfVals == selfItems[i]
             otherVals == otherItems[i]
         IN  IF \/ selfVals.detector_id # otherVals.detector_id
                \/ selfVals.section_id # otherVals.section_id
             THEN FALSE
             ELSE DetectorIdToRoadSections_eq_loop(selfItems, otherItems, i + 1)

DetectorIdToRoadSections_eq(self, other) ==
    IF self.aimsun_detector_locations = Unset
    THEN EqResult(NoAttribute(self.cls, "aimsun_detector_locations"), FALSE)
    ELSE IF other.aimsun_detector_locations = Unset
    THEN EqResult(NoAttribute(other.cls, "aimsun_detector_locations"), FALSE)
    ELSE IF PyLen(self.aimsun_detector_locations)
              # PyLen(other.aimsun_detector_locations)
    THEN EqResult(Returned, FALSE)
    ELSE EqResult(Returned,
             DetectorIdToRoadSections_eq_loop(self.aimsun_detector_locations.items,
                 other.aimsun_detector_locations.items, 1))

RECURSIVE OutputFlowDataSet_eq_loop(_, _, _)
\* for i in range(len(self.flow_data_set))
OutputFlowDataSet_eq_loop(selfItems, otherItems, i) ==
    IF i > Len(selfItems) THEN TRUE
    ELSE LET selfVals == selfItems[i]
             otherVals == otherItems[i]
         IN  IF \/ selfVals.detector_id # otherVals.detector_id
                \/ selfVals.flow_data # otherVals.flow_data
                \/ selfVals.section_id # otherVals.section_id
             THEN FALSE
             ELSE OutputFlowDataSet_eq_loop(selfItems, otherItems, i + 1)

\* variant of OutputFlowDataSet_eq: the year is compared first, as in
\* DetectorsLocation
OutputFlowDataSet_eq_with_year(self, other) ==
    IF self.flow_data_set = Unset
    THEN EqResult(NoAttribute(self.cls, "flow_data_set"), FALSE)
    ELSE IF other.flow_data_set = Unset
    THEN EqResult(NoAttribute(other.cls, "flow_data_set"), FALSE)
    ELSE IF self.year # other.year
    THEN EqResult(Returned, FALSE)
    ELSE IF PyLen(self.flow_data_set) # PyLen(other.flow_data_set)
    THEN EqResult(Returned, FALSE)
    ELSE EqResult(Returned,
             OutputFlowDataSet_eq_loop(self.flow_data_set.items,
                                       other.flow_data_set.items, 1))

OutputFlowDataSet_eq(self, other) ==
    IF self.flow_data_set = Unset
    THEN EqResult(NoAttribute(self.cls, "flow_data_set"), FALSE)
    ELSE IF other.flow_data_set = Unset
    THEN EqResult(NoAttribute(other.cls, "flow_data_set"), FALSE)
    ELSE IF PyLen(self.flow_data_set) # PyLen(other.flow_data_set)
    THEN EqResult(Returned, FALSE)
    ELSE EqResult(Returned,
             OutputFlowDataSet_eq_loop(self.flow_data_set.items,
                                       other.flow_data_set.items, 1))

\* self == other for two instances of one class
Eq(self, other) ==
    CASE self.cls = "DetectorsLocation" -> DetectorsLocation_eq(self, other)
      [] self.cls = "GroundFlowData" -> GroundFlowData_eq(self, other)
      [] self.cls = "DetectorIdToRoadSections" ->
             DetectorIdToRoadSections_eq(self, other)
      [] self.cls = "OutputFlowDataSet" -> OutputFlowDataSet_eq(self, other)


(***************************************************************************)
(* The data the instances are populated with.                              *)
(***************************************************************************)
\* all sequences over S of length at most n
SeqsUpTo(S, n) == UNION {[1..k -> S] : k \in 0..n}

\* year arguments of DetectorsLocation(year)
Years == {2020, 2021}

\* flow_data dicts (timestamp -> volume, compared with != as a whole)
FlowA == {<<1, 5>>}

FlowB == {<<1, 7>>}

\* the (Direction, Point) stored under each key by the populated instances
LocationOf(k) ==
    IF k = 1 THEN <<"north_bound", Point(0, 0)>> ELSE <<"east_bound", Point(1, 2)>>

\* the records lists are built from under Spec
Records(c) ==
    CASE c = "GroundFlowData" ->
             {DetectorFlowData(1, "north_bound", FlowA, "a", 2021),
              DetectorFlowData(2, "east_bound", FlowB, "b", 2021)}
      [] c = "DetectorIdToRoadSections" ->
             {DetectorIdToRoadSection(1, 1), DetectorIdToRoadSection(2, 1)}
      [] c = "OutputFlowDataSet" ->
             {OutputFlowData(1, FlowA, 1), OutputFlowData(2, FlowB, 2)}
      [] c = "DetectorsLocation" ->
             {[key |-> k, val |-> LocationOf(k)] : k \in DetectorId}

UniqueKeys(items) ==
    \A i, j \in 1..Len(items) : items[i].key = items[j].key => i = j

\* the values assigned to the primary field: lists of records, or dicts with
\* unique keys, of at most n elements (the empty one included)
Datasets(c, recs, n) ==
    IF c = "DetectorsLocation"
    THEN {PyDict(items) : items \in {s \in SeqsUpTo(recs, n) : UniqueKeys(s)}}
    ELSE {PyList(items) : items \in SeqsUpTo(recs, n)}

\* a mapping the tests can pickle by hand
SampleDict == PyDict(<<[key |-> 1, val |-> LocationOf(1)]>>)

\* values the tests pickle into a file to provoke a failed import
WrongValues == {PyList(<<PyStr("This is a wrong dataset")>>), PyInt(7)}

\* the streams of values a test pickles into a file by hand: one wrong value,
\* nothing at all, an empty list, a mapping alone, a mapping and a year that
\* is no int
Streams ==
    {<<v>> : v \in WrongValues}
        \cup {<<>>, <<PyList(<<>>)>>, <<SampleDict>>, <<SampleDict, PyStr("2021")>>}

RECURSIVE DumpAll(_, _, _)
\* pickle.dump of vs[i], vs[i + 1], ... in turn
DumpAll(file, vs, i) ==
    IF i > Len(vs) THEN file ELSE DumpAll(PickleDump(file, vs[i]), vs, i + 1)

(***************************************************************************)
(* The random dataset generators of the tests.  draws is the sequence of   *)
(* records the random calls produce, one per iteration.                    *)
(***************************************************************************)
\* self.dataset[detector_id] = (detector_direction, detector_point)
DictSet(items, entry) ==
    IF KeyIndex(items, entry.key) # 0
    THEN [items EXCEPT ![KeyIndex(items, entry.key)] = entry]
    ELSE Append(items, entry)

RECURSIVE add_locations_loop(_, _, _)
\* createDLDataset.add_locations: for _ in range(0, self.num_locations)
add_locations_loop(items, draws, i) ==
    IF i > Len(draws) THEN items
    ELSE add_locations_loop(DictSet(items, draws[i]), draws, i + 1)

RECURSIVE generate_dataset_loop(_, _, _)
\* add_detectors / generate_dataset: self.dataset += [record]
generate_dataset_loop(items, draws, i) ==
    IF i > Len(draws) THEN items
    ELSE generate_dataset_loop(items \o <<draws[i]>>, draws, i + 1)

GeneratorResult(o, ds) == [out |-> o, dataset |-> ds]

\* the closing "assert len(self.dataset) == N" of every generator
AssertLen(ds, n) ==
    GeneratorResult(IF PyLen(ds) = n THEN Returned
                    ELSE Raise("AssertionError", <<>>), ds)

\* createDLDataset(N), createGFDDataset(N), create_DITRS_Dataset(N),
\* create_OFDS_Dataset(N) with N = Len(draws)
createDataset(c, draws) ==
    IF c = "DetectorsLocation"
    THEN AssertLen(PyDict(add_locations_loop(<<>>, draws, 1)), Len(draws))
    ELSE AssertLen(PyList(generate_dataset_loop(<<>>, draws, 1)), Len(draws))

(***************************************************************************)
(* State.                                                                  *)
(*   cls       the collection class the run exercises                      *)
(*   obj       the instance bound to each name, None when unbound          *)
(*   fs        the file at each path                                       *)
(*   exported  per path, the instance whose successful export wrote the    *)
(*             file now there (None when the file has another origin)      *)
(*   handles   the number of file handles these classes hold open          *)
(*   last      the last call and what it did                               *)
(***************************************************************************)
VARIABLES cls, obj, fs, exported, handles, last

vars == <<cls, obj, fs, exported, handles, last>>

Slots == {1, 2}

Paths == {"1.txt"}

Call(op, slot, other, path, arg, out, warnings, existed, self, val) ==
    [op |-> op, slot |-> slot, other |-> other, path |-> path, arg |-> arg,
     out |-> out, warnings |-> warnings, existed |-> existed, self |-> self,
     val |-> val]

NoCall == Call("none", 0, 0, "", 0, Returned, 0, FALSE, None, FALSE)

Init ==
    /\ cls \in Classes
    /\ obj = [i \in Slots |-> None]
    /\ fs = [p \in Paths |-> NoFile]
    /\ exported = [p \in Paths |-> None]
    /\ handles = 0
    /\ last = NoCall

\* x = Class() or x = DetectorsLocation(year): construction without a path
Construct(i, year) ==
    /\ obj' = [obj EXCEPT ![i] = NewInstance(cls, year)]
    /\ last' = NoCall
    /\ UNCHANGED <<cls, fs, exported, handles>>

\* x = Class(filepath) or x = DetectorsLocation(year, filepath): __init__
\* followed by _import_from_file; x is bound only when the call returns
ConstructFromFile(i, year, p) ==
    LET r == import_from_file(NewInstance(cls, year), fs[p])
    IN  /\ obj' = IF r.out = Returned THEN [obj EXCEPT ![i] = r.self] ELSE obj
        /\ last' = Call("import", i, 0, p, year, r.out, 0, fs[p].exists, r.self,
                        FALSE)
        /\ handles' = handles + ImportHandles(fs[p], r.out)
        /\ UNCHANGED <<cls, fs, exported>>

\* x.<primary field> = v
Assign(i, v) ==
    /\ obj[i] # None
    /\ obj' = [obj EXCEPT ![i] = SetPrimary(@, v)]
    /\ last' = NoCall
    /\ UNCHANGED <<cls, fs, exported, handles>>

\* x.year = year, for the two classes that declare a year attribute
AssignYear(i, year) ==
    /\ cls \in {"DetectorsLocation", "OutputFlowDataSet"}
    /\ obj[i] # None
    /\ obj' = [obj EXCEPT ![i].year = PyInt(year)]
    /\ last' = NoCall
    /\ UNCHANGED <<cls, fs, exported, handles>>

\* x.export_to_file(filepath)
Export(i, p) ==
    /\ obj[i] # None
    /\ LET r == export_to_file(obj[i], fs[p])
       IN  /\ fs' = [fs EXCEPT ![p] = r.file]
           /\ exported' = IF r.out = Returned
                          THEN [exported EXCEPT ![p] = obj[i]]
                          ELSE exported
           /\ last' = Call("export", i, 0, p, 0, r.out, r.warnings,
                           fs[p].exists, obj[i], FALSE)
           /\ handles' = handles + ExportHandles(r.out)
    /\ UNCHANGED <<cls, obj>>

\* x == y
Compare(i, j) ==
    /\ obj[i] # None
    /\ obj[j] # None
    /\ LET r == Eq(obj[i], obj[j])
       IN  last' = Call("eq", i, j, "", 0, r.out, 0, FALSE, obj[i], r.val)
    /\ UNCHANGED <<cls, obj, fs, exported, handles>>

\* open(filepath, 'x'), write plain text: only where no file exists
WriteText(p) ==
    /\ ~fs[p].exists
    /\ fs' = [fs EXCEPT ![p] = TextFile]
    /\ exported' = [exported EXCEPT ![p] = None]
    /\ last' = NoCall
    /\ UNCHANGED <<cls, obj, handles>>

\* with open(filepath, 'wb') as file: pickle.dump(v, file) for each v of vs
WritePickle(p, vs) ==
    /\ fs' = [fs EXCEPT ![p] = DumpAll(OpenWb(fs[p]), vs, 1)]
    /\ exported' = [exported EXCEPT ![p] = None]
    /\ last' = NoCall
    /\ UNCHANGED <<cls, obj, handles>>

\* os.remove(filepath)
Remove(p) ==
    /\ fs[p].exists
    /\ fs' = [fs EXCEPT ![p] = NoFile]
    /\ exported' = [exported EXCEPT ![p] = None]
    /\ last' = NoCall
    /\ UNCHANGED <<cls, obj, handles>>

\* x.<primary field> = create...Dataset(N).dataset; nothing is assigned when
\* the generator raises
Generate(i, draws) ==
    /\ obj[i] # None
    /\ LET r == createDataset(cls, draws)
       IN  /\ obj' = IF r.out = Returned
                     THEN [obj EXCEPT ![i] = SetPrimary(@, r.dataset)]
                     ELSE obj
           /\ last' = Call("generate", i, 0, "", Len(draws), r.out, 0, FALSE,
                           obj'[i], FALSE)
    /\ UNCHANGED <<cls, fs, exported, handles>>

\* the year arguments a constructor of class c takes
YearArgs(c) == IF c = "DetectorsLocation" THEN Years ELSE {0}

\* the years the runs assign to x.year after construction
AssignedYears(c) == IF c = "DetectorsLocation" THEN Years ELSE {2021}

Next ==
    \/ \E i \in Slots, year \in YearArgs(cls) : Construct(i, year)
    \/ \E i \in Slots, year \in YearArgs(cls), p \in Paths :
           ConstructFromFile(i, year, p)
    \/ \E i \in Slots, v \in Datasets(cls, Records(cls), MaxLen) : Assign(i, v)
    \/ \E i \in Slots, year \in AssignedYears(cls) : AssignYear(i, year)
    \/ \E i \in Slots, p \in Paths : Export(i, p)
    \/ \E p \in Paths : WriteText(p)
    \/ \E p \in Paths, vs \in Streams : WritePickle(p, vs)
    \/ \E p \in Paths : Remove(p)

Spec == Init /\ [][Next]_vars

(***************************************************************************)
(* Equality on its own: two populated instances of one class, drawn from   *)
(* records that differ from a base record in one field at a time, and      *)
(* compared in both orders.                                                *)
(***************************************************************************)
LocationValues ==
    {<<"north_bound", Point(0, 0)>>, <<"east_bound", Point(0, 0)>>,
     <<"north_bound", Point(1, 0)>>, <<"north_bound", Point(0, 1)>>}

EqRecords(c) ==
    CASE c = "GroundFlowData" ->
             {DetectorFlowData(1, "north_bound", FlowA, "a", 2021),
              DetectorFlowData(2, "north_bound", FlowA, "a", 2021),
              DetectorFlowData(1, "east_bound", FlowA, "a", 2021),
              DetectorFlowData(1, "north_bound", FlowB, "a", 2021),
              DetectorFlowData(1, "north_bound", FlowA, "b", 2021),
              DetectorFlowData(1, "north_bound", FlowA, "a", 2020)}
      [] c = "DetectorIdToRoadSections" ->
             {DetectorIdToRoadSection(id, sec) : id \in DetectorId, sec \in SectionId}
      [] c = "OutputFlowDataSet" ->
             {OutputFlowData(1, FlowA, 1), OutputFlowData(2, FlowA, 1),
              OutputFlowData(1, FlowB, 1), OutputFlowData(1, FlowA, 2)}
      [] c = "DetectorsLocation" ->
             {[key |-> k, val |-> v] : k \in DetectorId, v \in LocationValues}

\* the values the year attribute of a populated instance of class c holds
EqYears(c) ==
    CASE c = "DetectorsLocation" -> {PyInt(year) : year \in Years}
      [] c = "OutputFlowDataSet" -> {Unset} \cup {PyInt(year) : year \in Years}
      [] OTHER -> {Unset}

\* x with its year attribute, when its class declares one, holding y
WithYear(x, y) ==
    IF x.cls \in {"DetectorsLocation", "OutputFlowDataSet"}
    THEN [x EXCEPT !.year = y]
    ELSE x

\* the populated instances of class c compared under SpecEq
EqInstances(c) ==
    {WithYear(SetPrimary(NewInstance(c, 0), v), y) :
        y \in EqYears(c), v \in Datasets(c, EqRecords(c), MaxEqLen)}

InitEq ==
    /\ cls \in Classes
    /\ obj \in [Slots -> EqInstances(cls)]
    /\ fs = [p \in Paths |-> NoFile]
    /\ exported = [p \in Paths |-> None]
    /\ handles = 0
    /\ last = NoCall

NextEq == \E i, j \in Slots : Compare(i, j)

SpecEq == InitEq /\ [][NextEq]_vars

(***************************************************************************)
(* The import-equals-export test.  original (slot 1) is populated and       *)
(* random (slot 3) is constructed; original is exported to the path, new   *)
(* (slot 2) is constructed from the path, the file is removed, new is      *)
(* compared with original, random is populated by the generator and new is *)
(* compared with random.                                                   *)
(***************************************************************************)
\* original, new, random
TestSlots == {1, 2, 3}

\* the populated instances the test exports
TestInstances(c) ==
    {WithYear(SetPrimary(NewInstance(c, 0), v), y) :
        y \in EqYears(c),
        v \in Datasets(c, Records(c), MaxLen) \ {PyDict(<<>>), PyList(<<>>)}}

InitTest ==
    /\ cls \in Classes
    /\ \E x \in TestInstances(cls), year \in YearArgs(cls) :
           obj = [i \in TestSlots |->
                     CASE i = 1 -> x
                       [] i = 2 -> None
                       [] i = 3 -> NewInstance(cls, year)]
    /\ fs = [p \in Paths |-> NoFile]
    /\ exported = [p \in Paths |-> None]
    /\ handles = 0
    /\ last = NoCall

NextTest ==
    \/ \E p \in Paths : Export(1, p)
    \/ \E year \in YearArgs(cls), p \in Paths : ConstructFromFile(2, year, p)
    \/ \E p \in Paths : Remove(p)
    \/ Compare(2, 1)
    \/ \E draws \in SeqsUpTo(Records(cls), MaxLen) : Generate(3, draws)
    \/ Compare(2, 3)

SpecTest == InitTest /\ [][NextTest]_vars

(***************************************************************************)
(* Files pickled by hand: the path receives lists whose elements are of    *)
(* mixed types, or an empty mapping followed by a year, and an instance is *)
(* constructed from it and exported again.                                 *)
(***************************************************************************)
\* what a hand-made list can hold: one record of each record class, a string
ListElements ==
    {DetectorFlowData(1, "north_bound", FlowA, "a", 2021),
     DetectorIdToRoadSection(1, 1),
     OutputFlowData(1, FlowA, 1),
     PyStr("This is a wrong dataset")}

HandMadeStreams ==
    {<<PyList(items)>> : items \in SeqsUpTo(ListElements, MaxLen)}
        \cup {<<PyDict(<<>>), PyInt(2021)>>, <<SampleDict, PyInt(2021)>>}

NextFiles ==
    \/ \E year \in YearArgs(cls), p \in Paths : ConstructFromFile(1, year, p)
    \/ \E p \in Paths, vs \in HandMadeStreams : WritePickle(p, vs)
    \/ \E p \in Paths : Export(1, p)
    \/ \E p \in Paths : Remove(p)

SpecFiles == Init /\ [][NextFiles]_vars

(***************************************************************************)
(* Properties.                                                             *)
(***************************************************************************)
\* the primary field of o is assigned and holds at least one element
NonEmpty(o) == Primary(o) # Unset /\ PyLen(Primary(o)) > 0

\* the primary field of o is assigned and holds no element
Empty(o) == Primary(o) # Unset /\ PyLen(Primary(o)) = 0

\* the two operands of the last comparison
LeftOperand == obj[last.slot]

RightOperand == obj[last.other]

\* the stream a successful export of o is documented to leave: the primary
\* field, followed for DetectorsLocation by the year
ExpectedFrames(o) ==
    IF o.cls = "DetectorsLocation"
    THEN <<[kind |-> "pickle", obj |-> o.detectors_location_dict],
           [kind |-> "pickle", obj |-> o.year]>>
    ELSE <<[kind |-> "pickle", obj |-> Primary(o)]>>

\* C1: round trip.  Whenever an instance is constructed from a path whose file
\* was written by a successful export of a non-empty instance x, the
\* construction succeeds and the new instance y satisfies y == x.
C1_RoundTrip ==
    (last.op = "import" /\ exported[last.path] # None)
        => /\ NonEmpty(exported[last.path])
           /\ last.out = Returned
           /\ Eq(last.self, exported[last.path]) = EqResult(Returned, TRUE)

C1_Witness ==
    /\ last.op = "import"
    /\ exported[last.path] # None
    /\ cls = "DetectorsLocation"
    /\ last.out = Returned
    /\ PyLen(Primary(last.self)) = 2
    /\ last.self.year # PyInt(last.arg)

\* C2: empty export.  export_to_file on an instance whose primary field has
\* length 0 raises the "no data ... Export aborted." exception, whether or not
\* a file exists at the path.
C2_EmptyExport ==
    (last.op = "export" /\ Empty(last.self)) => EmptyDatasetError(last.out)

C2_Witness ==
    /\ last.op = "export"
    /\ Empty(last.self)
    /\ last.existed
    /\ EmptyDatasetError(last.out)

\* C3: an export that fails on an empty collection leaves every file as it
\* was (none created, none modified) and emits no warning.
C3_FailedExportFrame ==
    [][(last'.op = "export" /\ Empty(last'.self))
          => (fs' = fs /\ last'.warnings = 0)]_vars

C3_Witness ==
    /\ last.op = "export"
    /\ Empty(last.self)
    /\ last.existed
    /\ last.warnings = 0
    /\ fs[last.path] = TextFile

\* C4: overwrite warns.  Exporting a non-empty instance to a path where a file
\* already exists emits exactly one warning, raises nothing, and leaves at the
\* path exactly the serialization of the exported instance.
C4_OverwriteWarns ==
    (last.op = "export" /\ NonEmpty(last.self) /\ last.existed)
        => /\ last.warnings = 1
           /\ last.out = Returned
           /\ fs[last.path].exists
           /\ fs[last.path].frames = ExpectedFrames(last.self)

C4_Witness ==
    /\ last.op = "export"
    /\ NonEmpty(last.self)
    /\ last.existed
    /\ last.warnings = 1
    /\ exported[last.path] = last.self

\* the file at the path of the last import holds one pickled value of the
\* wrong shape
OneWrongValue(file) ==
    /\ file.exists
    /\ Len(file.frames) = 1
    /\ file.frames[1].kind = "pickle"
    /\ file.frames[1].obj \in WrongValues

\* C5: import type mismatch.  Constructing an instance from a file that holds
\* one pickled value of the wrong shape raises the "File has incorrect data
\* type. Import aborted." exception and no other.
C5_ImportTypeMismatch ==
    (last.op = "import" /\ OneWrongValue(fs[last.path]))
        => TypeMismatchError(last.out)

\* C6: import malformed.  Constructing an instance from a plain-text file
\* raises the same "File has incorrect data type. Import aborted." exception.
C6_ImportMalformed ==
    (last.op = "import" /\ fs[last.path] = TextFile)
        => TypeMismatchError(last.out)

\* every field the import reads is assigned the value the file holds for it
Committed(o, file) ==
    IF o.cls = "DetectorsLocation"
    THEN /\ Len(file.frames) >= 2
         /\ o.detectors_location_dict = file.frames[1].obj
         /\ o.year = file.frames[2].obj
    ELSE /\ Len(file.frames) >= 1
         /\ Primary(o) = file.frames[1].obj

\* C7: import is all-or-nothing.  A constructor call with a path either
\* returns with every imported field assigned from the file, or raises with
\* the instance exactly as __init__ had it before _import_from_file.
C7_AllOrNothing ==
    last.op = "import"
        => \/ last.out = Returned /\ Committed(last.self, fs[last.path])
           \/ last.out # Returned /\ last.self = NewInstance(cls, last.arg)

C7_Witness ==
    /\ last.op = "import"
    /\ cls = "DetectorsLocation"
    /\ Len(fs[last.path].frames) = 2
    /\ IsInstance(fs[last.path].frames[1].obj, "dict")
    /\ last.out # Returned
    /\ last.self = NewInstance(cls, last.arg)

\* C8: size check.  Two instances whose primary collections differ in size
\* compare unequal, in either order.
C8_SizeCheck ==
    (/\ last.op = "eq"
     /\ PyLen(Primary(LeftOperand)) # PyLen(Primary(RightOperand)))
        => (last.out = Returned /\ last.val = FALSE)

\* the documented fields of two records of a list-based class agree
SameRecord(c, r1, r2) ==
    CASE c = "GroundFlowData" ->
             /\ r1.detector_id = r2.detector_id
             /\ r1.direction = r2.direction
             /\ r1.flow_data = r2.flow_data
             /\ r1.name = r2.name
             /\ r1.year = r2.year
      [] c = "DetectorIdToRoadSections" ->
             /\ r1.detector_id = r2.detector_id
             /\ r1.section_id = r2.section_id
      [] c = "OutputFlowDataSet" ->
             /\ r1.detector_id = r2.detector_id
             /\ r1.flow_data = r2.flow_data
             /\ r1.section_id = r2.section_id

\* index-aligned equality of two lists of records
SameList(c, l1, l2) ==
    /\ Len(l1.items) = Len(l2.items)
    /\ \A i \in 1..Len(l1.items) : SameRecord(c, l1.items[i], l2.items[i])

\* C9: for the three list-based classes a == b is True exactly when the lists
\* have the same length and agree field by field at every index.
C9_ListEquality ==
    (last.op = "eq" /\ cls \in ListClasses)
        => /\ last.out = Returned
           /\ last.val = SameList(cls, Primary(LeftOperand), Primary(RightOperand))

\* the same two distinct records in opposite orders compare unequal
C9_Witness ==
    /\ last.op = "eq"
    /\ cls \in ListClasses
    /\ PyLen(Primary(LeftOperand)) = 2
    /\ PyLen(Primary(RightOperand)) = 2
    /\ Primary(LeftOperand).items[1] = Primary(RightOperand).items[2]
    /\ Primary(LeftOperand).items[2] = Primary(RightOperand).items[1]
    /\ Primary(LeftOperand).items[1] # Primary(LeftOperand).items[2]
    /\ last.val = FALSE

DictKeys(d) == {d.items[i].key : i \in 1..Len(d.items)}

DictGet(d, k) == d.items[CHOOSE i \in 1..Len(d.items) : d.items[i].key = k].val

\* direction, x and y stored under k agree in d1 and d2
SameLocation(d1, d2, k) ==
    /\ DictGet(d1, k)[1] = DictGet(d2, k)[1]
    /\ DictGet(d1, k)[2].x = DictGet(d2, k)[2].x
    /\ DictGet(d1, k)[2].y = DictGet(d2, k)[2].y

\* C10: DetectorsLocation equality is by key.  Same year, same detector IDs
\* and the same direction, x and y per ID compare equal whatever the insertion
\* order; a different year, or a different direction, x or y under a shared
\* ID, compare unequal.
C10_KeyedEquality ==
    (last.op = "eq" /\ cls = "DetectorsLocation")
        => LET a == LeftOperand
               b == RightOperand
               da == a.detectors_location_dict
               db == b.detectors_location_dict
           IN  /\ (/\ a.year = b.year
                   /\ DictKeys(da) = DictKeys(db)
                   /\ \A k \in DictKeys(da) : SameLocation(da, db, k))
                      => (last.out = Returned /\ last.val = TRUE)
               /\ (\/ a.year # b.year
                   \/ \E k \in DictKeys(da) \cap DictKeys(db) :
                          ~SameLocation(da, db, k))
                      => (last.out = Returned /\ last.val = FALSE)

\* the same two entries inserted in opposite orders compare equal
C10_Witness ==
    /\ last.op = "eq"
    /\ cls = "DetectorsLocation"
    /\ PyLen(LeftOperand.detectors_location_dict) = 2
    /\ PyLen(RightOperand.detectors_location_dict) = 2
    /\ LeftOperand.detectors_location_dict.items[1]
           = RightOperand.detectors_location_dict.items[2]
    /\ LeftOperand.detectors_location_dict.items[2]
           = RightOperand.detectors_location_dict.items[1]
    /\ LeftOperand.year = RightOperand.year
    /\ last.val = TRUE

\* C11: only two error kinds.  Every export_to_file call and every constructor
\* call with a path that raises, raises the no-data exception or the
\* incorrect-data-type exception.
C11_TwoErrorKinds ==
    (last.op \in {"export", "import"} /\ last.out # Returned)
        => (EmptyDatasetError(last.out) \/ TypeMismatchError(last.out))

\* the first n values of a file
Prefix(file, n) == [file EXCEPT !.frames = SubSeq(@, 1, n)]

\* the number of values an import of class c consumes from file: the length
\* of the shortest prefix of the file the import treats as it treats the file
ValuesRead(c, file) ==
    LET whole == import_from_file(NewInstance(c, 0), file)
        same(n) == import_from_file(NewInstance(c, 0), Prefix(file, n)) = whole
    IN  CHOOSE n \in 0..Len(file.frames) :
            same(n) /\ \A m \in 0..(n - 1) : ~same(m)

\* C12: persisted stream shape.  After a successful export the file holds
\* exactly one pickled value (the list) for the three list classes and exactly
\* two for DetectorsLocation, the mapping then the year; an import of that
\* file consumes as many values as the export wrote and assigns them in the
\* order written.
C12_StreamShape ==
    /\ (last.op = "export" /\ last.out = Returned)
          => LET f == fs[last.path]
             IN  /\ \A k \in 1..Len(f.frames) : f.frames[k].kind = "pickle"
                 /\ IF cls = "DetectorsLocation"
                    THEN /\ Len(f.frames) = 2
                         /\ f.frames[1].obj = last.self.detectors_location_dict
                         /\ IsInstance(f.frames[1].obj, "dict")
                         /\ f.frames[2].obj = last.self.year
                         /\ IsInstance(f.frames[2].obj, "int")
                    ELSE /\ Len(f.frames) = 1
                         /\ f.frames[1].obj = Primary(last.self)
                         /\ IsInstance(f.frames[1].obj, "list")
                 /\ ValuesRead(cls, f) = Len(f.frames)
    /\ (last.op = "import" /\ exported[last.path] # None)
          => /\ ValuesRead(cls, fs[last.path]) = Len(fs[last.path].frames)
             /\ Committed(last.self, fs[last.path])

C12_Witness ==
    /\ last.op = "import"
    /\ exported[last.path] # None
    /\ last.out = Returned
    /\ Len(fs[last.path].frames) = IF cls = "DetectorsLocation" THEN 2 ELSE 1
    /\ cls = "OutputFlowDataSet"

\* C13: OutputFlowDataSet.year takes no part in equality.  Two instances whose
\* flow_data_set lists agree index by index compare equal whatever their
\* years, assigned or not.
C13_YearNotCompared ==
    (/\ last.op = "eq"
     /\ cls = "OutputFlowDataSet"
     /\ SameList(cls, LeftOperand.flow_data_set, RightOperand.flow_data_set))
        => (last.out = Returned /\ last.val = TRUE)

C13_Witness ==
    /\ last.op = "eq"
    /\ cls = "OutputFlowDataSet"
    /\ PyLen(LeftOperand.flow_data_set) = 2
    /\ LeftOperand.year = Unset
    /\ RightOperand.year = PyInt(2021)
    /\ last.val = TRUE

\* C14: OutputFlowDataSet persists its year.  An instance constructed from the
\* file an OutputFlowDataSet with an assigned year exported has that year.
C14_YearPersisted ==
    (/\ last.op = "import"
     /\ cls = "OutputFlowDataSet"
     /\ exported[last.path] # None
     /\ exported[last.path].year # Unset
     /\ last.out = Returned)
        => last.self.year = exported[last.path].year

\* C15: file handles are scoped to one call.  Between calls no file handle of
\* these classes is open: not after an export that returned, not after an
\* import whose deserialization failed, not after one that failed the type
\* check.
C15_HandlesClosed == handles = 0

C15_Witness ==
    /\ handles = 0
    /\ last.op = "import"
    /\ last.existed
    /\ last.out.exc = "UnpicklingError"

\* C16: an instance constructed without a path is empty.  export_to_file on an
\* instance whose primary field was never assigned raises the no-data
\* exception and leaves the file at the path as it was.
C16_UnassignedExport ==
    (last.op = "export" /\ Primary(last.self) = Unset)
        => EmptyDatasetError(last.out)

\* C18: a successful export to a path that holds no file creates the file and
\* emits no warning; an export emits a warning only if a file was at the path
\* when the call began.
C18_CreateWithoutWarning ==
    /\ (last.op = "export" /\ NonEmpty(last.self) /\ ~last.existed)
          => /\ last.out = Returned
             /\ fs[last.path].exists
             /\ last.warnings = 0
    /\ (last.op = "export" /\ last.warnings > 0) => last.existed

C18_Witness ==
    /\ last.op = "export"
    /\ NonEmpty(last.self)
    /\ ~last.existed
    /\ last.out = Returned
    /\ fs[last.path].exists
    /\ last.warnings = 0

\* C20: DetectorsLocation(year, filepath) takes its year from the file.  After
\* a successful import the instance's year is the second value of the file,
\* whatever the constructor argument; when the file was exported by an
\* instance x, the new instance has x's year and compares equal to x.
C20_YearFromFile ==
    (last.op = "import" /\ cls = "DetectorsLocation" /\ last.out = Returned)
        => /\ last.self.year = fs[last.path].frames[2].obj
           /\ exported[last.path] # None
                 => /\ last.self.year = exported[last.path].year
                    /\ DetectorsLocation_eq(last.self, exported[last.path])
                           = EqResult(Returned, TRUE)

C20_Witness ==
    /\ last.op = "import"
    /\ cls = "DetectorsLocation"
    /\ last.out = Returned
    /\ exported[last.path] # None
    /\ exported[last.path].year = PyInt(2020)
    /\ last.arg = 2021
    /\ last.self.year = PyInt(2020)

\* the left operand is new, imported from the file original was exported to;
\* the right operand is random and holds a generated collection of the same
\* size
ImportedVsGenerated ==
    /\ last.op = "eq"
    /\ last.slot = 2
    /\ last.other = 3
    /\ Eq(LeftOperand, obj[1]) = EqResult(Returned, TRUE)
    /\ Primary(LeftOperand) = Primary(obj[1])
    /\ Primary(RightOperand) # Unset
    /\ PyLen(Primary(LeftOperand)) = PyLen(Primary(RightOperand))

\* the two operands differ in a field their class compares
DifferInComparedField(a, b) ==
    IF cls = "DetectorsLocation"
    THEN \/ a.year # b.year
         \/ DictKeys(Primary(a)) # DictKeys(Primary(b))
         \/ \E k \in DictKeys(Primary(a)) \cap DictKeys(Primary(b)) :
                ~SameLocation(Primary(a), Primary(b), k)
    ELSE ~SameList(cls, Primary(a), Primary(b))

\* C17 as stated: an instance imported from an exported N-record collection
\* compares unequal to a generated collection of the same size N, for every
\* outcome of the generator's draws.
C17_AlwaysUnequal ==
    ImportedVsGenerated => (last.out = Returned /\ last.val = FALSE)

\* C17 amended: the imported instance compares unequal to a generated
\* collection of the same size exactly when the two differ in a compared
\* field; when the generator draws the exported records they compare equal.
C17_UnequalWhenDifferent ==
    ImportedVsGenerated
        => /\ last.out = Returned
           /\ last.val = ~DifferInComparedField(LeftOperand, RightOperand)

\* two collections of two records that agree at the first index only
C17_Witness ==
    /\ ImportedVsGenerated
    /\ cls \in ListClasses
    /\ PyLen(Primary(LeftOperand)) = 2
    /\ Primary(LeftOperand).items[1] = Primary(RightOperand).items[1]
    /\ Primary(LeftOperand).items[2] # Primary(RightOperand).items[2]
    /\ \A p \in Paths : ~fs[p].exists
    /\ last.val = FALSE

\* C19: every generator returns exactly N records for N draws, whatever the
\* draws, so its closing assertion never fails.
C19_GeneratorsExact ==
    last.op = "generate"
        => /\ last.out = Returned
           /\ PyLen(Primary(last.self)) = last.arg

\* the file holds one pickled list with at least one element
HoldsList(file) ==
    /\ file.exists
    /\ Len(file.frames) = 1
    /\ file.frames[1].kind = "pickle"
    /\ IsInstance(file.frames[1].obj, "list")
    /\ PyLen(file.frames[1].obj) > 0

\* C21: list import inspects the first entry only.  For the three list-based
\* classes a pickled list whose first element is of the expected record type
\* is imported whatever the later elements are, and a list whose first element
\* is of another type is rejected with the type mismatch exception.
C21_FirstEntryOnly ==
    (last.op = "import" /\ cls \in ListClasses /\ HoldsList(fs[last.path]))
        => LET imported_data == fs[last.path].frames[1].obj
           IN  IF IsInstance(imported_data.items[1], RecordType(cls))
               THEN /\ last.out = Returned
                    /\ Primary(last.self) = imported_data
                    /\ obj[last.slot] = last.self
               ELSE TypeMismatchError(last.out)

\* a list of the expected record followed by something else was imported
C21_Witness ==
    /\ last.op = "import"
    /\ cls \in ListClasses
    /\ HoldsList(fs[last.path])
    /\ PyLen(fs[last.path].frames[1].obj) = 2
    /\ IsInstance(fs[last.path].frames[1].obj.items[1], RecordType(cls))
    /\ ~IsInstance(fs[last.path].frames[1].obj.items[2], RecordType(cls))
    /\ last.out = Returned
    /\ Primary(obj[last.slot]) = fs[last.path].frames[1].obj

\* C24: a successful import implies a non-empty primary field, so that an
\* export of the instance right after never raises the "no data" exception.
C24_ImportedNonEmpty ==
    (last.op = "import" /\ last.out = Returned)
        => /\ NonEmpty(last.self)
           /\ ~EmptyDatasetError(export_to_file(last.self, fs[last.path]).out)

\* C23: equality is symmetric.  For two populated instances a and b of one
\* class, a == b and b == a give the same result.
C23_Symmetric ==
    (last.op = "eq" /\ NonEmpty(LeftOperand) /\ NonEmpty(RightOperand))
        => /\ last.out = Returned
           /\ Eq(RightOperand, LeftOperand) = EqResult(Returned, last.val)

\* C22: the last successful export wins.  While exports are the only calls
\* that touch a path, some succeeding and some failing on an empty
\* collection, the file holds exactly what the most recent successful export
\* wrote, and an instance constructed from the path equals the instance that
\* performed that export.
C22_LastExportWins ==
    \A p \in Paths :
        exported[p] # None
            => /\ fs[p] = export_to_file(exported[p], NoFile).file
               /\ LET r == import_from_file(NewInstance(cls, 0), fs[p])
                  IN  /\ r.out = Returned
                      /\ Eq(r.self, exported[p]) = EqResult(Returned, TRUE)

\* an export over an existing file failed on an empty collection after an
\* export by another instance had succeeded
C22_Witness ==
    /\ last.op = "export"
    /\ Empty(last.self)
    /\ EmptyDatasetError(last.out)
    /\ last.existed
    /\ exported[last.path] # None
    /\ PyLen(Primary(exported[last.path])) = 2

=============================================================================
